---- MODULE Spec2Model ----
(***************************************************************************)
(* Dependency-aware tool planner of src/src/dependency_planner.py.         *)
(*                                                                         *)
(* A Python string is a sequence of tokens: each of the characters         *)
(* "$", "|", " ", the double quote and the single quote is a token of its   *)
(* own, and a maximal run of other characters is one token.  The planner    *)
(* inspects strings only through startswith('$'), '||' in s, split('||'),   *)
(* strip(), strip('"\'') and s[1:] (taken only after startswith('$')), all  *)
(* of which act on token boundaries.                                        *)
(* A Python value is a record [type, val]; val is the token sequence of a   *)
(* str, the digits of an int, and empty for None.                           *)
(* Python lists are 0-based; the sequences here are 1-based.                *)
(***************************************************************************)
EXTENDS Integers, Sequences, FiniteSets, TLC

(* Longest raw plan the model enumerates. *)
MaxSteps == 2

----------------------------------------------------------------------------
(* Python values *)

PyStr(s) == [type |-> "str", val |-> s]
PyInt(s) == [type |-> "int", val |-> s]
None == [type |-> "NoneType", val |-> <<>>]
(* tool, post_process and note are never parsed: plain strings, with this  *)
(* one standing for an absent key (dict.get returning None).                *)
NoneStr == "None"

isinstance_str(value) == value.type = "str"

Range(s) == {s[i] : i \in 1..Len(s)}

(* list(set(...)): the elements once each, in an order the caller must not *)
(* rely on.                                                                 *)
RECURSIVE SetToSeq(_)
SetToSeq(S) ==
    IF S = {} THEN <<>>
    ELSE LET x == CHOOSE x \in S : TRUE IN <<x>> \o SetToSeq(S \ {x})

----------------------------------------------------------------------------
(* str methods *)

startswith_dollar(s) == Len(s) > 0 /\ s[1] = "$"

BarBarAt(s, i) == i >= 1 /\ i + 1 <= Len(s) /\ s[i] = "|" /\ s[i + 1] = "|"

contains_barbar(s) == \E i \in 1..Len(s) : BarBarAt(s, i)

(* s.split('||'): cut at the leftmost separators, left to right. *)
RECURSIVE split_barbar(_)
split_barbar(s) ==
    IF ~contains_barbar(s) THEN <<s>>
    ELSE LET i == CHOOSE i \in 1..Len(s) :
                      BarBarAt(s, i) /\ \A j \in 1..(i - 1) : ~BarBarAt(s, j)
         IN <<SubSeq(s, 1, i - 1)>> \o split_barbar(SubSeq(s, i + 2, Len(s)))

RECURSIVE lstrip(_, _)
lstrip(s, chars) ==
    IF Len(s) > 0 /\ s[1] \in chars THEN lstrip(Tail(s), chars) ELSE s

RECURSIVE rstrip(_, _)
rstrip(s, chars) ==
    IF Len(s) > 0 /\ s[Len(s)] \in chars
    THEN rstrip(SubSeq(s, 1, Len(s) - 1), chars) ELSE s

strip(s, chars) == rstrip(lstrip(s, chars), chars)

Whitespace == {" "}
Quotes == {"\"", "'"}

----------------------------------------------------------------------------
(* ToolDependency *)

post_processor_outputs ==
    [op \in {"find_transition_id", "extract_end_date", "extract_attachments",
             "count_results", "build_associations", "generate_burndown_chart",
             "calculate_average_resolution_time", "generate_closure_report",
             "calculate_velocity_last_3_sprints", "format_notification",
             "schedule_reminder", "setup_alert_subscription",
             "format_qa_notification", "generate_daily_summary",
             "format_and_share_external", "group_by_stage",
             "group_by_lifecycle_stage", "calculate_revenue_forecast",
             "generate_activity_summary", "format_pipelines",
             "bulk_import_contacts", "bulk_update_lifecycle_stage"} |->
        CASE op = "find_transition_id" -> {<<"transition_id">>}
          [] op = "extract_end_date" -> {<<"end_date">>}
          [] op = "extract_attachments" -> {<<"attachments">>}
          [] op = "count_results" -> {<<"count">>, <<"total">>}
          [] op = "build_associations" -> {<<"association_ids">>}
          [] op = "generate_burndown_chart" -> {<<"burndown_data">>}
          [] op = "calculate_average_resolution_time" -> {<<"average_time">>}
          [] op = "generate_closure_report" -> {<<"closure_report">>}
          [] op = "calculate_velocity_last_3_sprints" -> {<<"velocity_data">>}
          [] op = "format_notification" -> {<<"notification_text">>}
          [] op = "schedule_reminder" -> {<<"reminder_id">>}
          [] op = "setup_alert_subscription" -> {<<"subscription_id">>}
          [] op = "format_qa_notification" -> {<<"qa_notification">>}
          [] op = "generate_daily_summary" -> {<<"daily_summary">>}
          [] op = "format_and_share_external" -> {<<"share_result">>}
          [] op = "group_by_stage" -> {<<"stage_groups">>}
          [] op = "group_by_lifecycle_stage" -> {<<"lifecycle_groups">>}
          [] op = "calculate_revenue_forecast" -> {<<"revenue_forecast">>}
          [] op = "generate_activity_summary" -> {<<"activity_summary">>}
          [] op = "format_pipelines" -> {<<"pipeline_data">>}
          [] op = "bulk_import_contacts" -> {<<"import_results">>}
          [] op = "bulk_update_lifecycle_stage" -> {<<"update_results">>}]

(* a lookup that guesses the output of an operator missing from the table *)
_get_provided_variables_guessed(post_process) ==
    IF post_process \in DOMAIN post_processor_outputs
    THEN post_processor_outputs[post_process]
    ELSE IF post_process = "extract_issue_key" THEN {<<"issue_key">>} ELSE {}

_get_provided_variables(post_process) ==
    IF post_process \in DOMAIN post_processor_outputs
    THEN post_processor_outputs[post_process]
    ELSE {}

(* The name a "$..." parameter value contributes to required_vars, as a    *)
(* set of zero or one names.                                                *)
RequiredVarOf(value) ==
    IF isinstance_str(value) /\ startswith_dollar(value.val)
    THEN IF contains_barbar(value.val)
         THEN LET var_part == strip(split_barbar(value.val)[1], Whitespace)
              IN IF startswith_dollar(var_part) THEN {Tail(var_part)} ELSE {}
         ELSE {Tail(value.val)}
    ELSE {}

ToolDependency(tool_step, step_index) ==
    [tool_name |-> tool_step.tool,
     params |-> tool_step.params,
     post_process |-> tool_step.post_process,
     note |-> tool_step.note,
     step_index |-> step_index,
     original_step |-> tool_step,
     required_vars |->
        UNION {RequiredVarOf(tool_step.params[p]) : p \in DOMAIN tool_step.params},
     provided_vars |->
        IF tool_step.post_process # NoneStr /\ tool_step.post_process # ""
        THEN _get_provided_variables(tool_step.post_process)
        ELSE {}]

can_execute_after(dep, available_vars) == dep.required_vars \subseteq available_vars

analyze_dependencies(plan) ==
    [i \in 1..Len(plan) |-> ToolDependency(plan[i], i - 1)]

----------------------------------------------------------------------------
(* DependencyPlanner.validate_dependencies *)

(* var_def.get(...) on an entry that is not a dict raises AttributeError *)
is_dict(var_def) == DOMAIN var_def = {"name", "required"}

schema_raises(variables) == \E var_def \in variables : ~is_dict(var_def)

(* required_vars / optional_vars built from intent_config.variables *)
schema_required_vars(variables) == {d.name : d \in {e \in variables : e.required}}
schema_optional_vars(variables) == {d.name : d \in {e \in variables : ~e.required}}

(* the validator examining the descriptor's required_vars instead *)
validator_refs_with_defaults(dep) == dep.required_vars

(* Names of the parameters the validator examines: "$name" without "||". *)
validator_bare_refs(dep) ==
    {Tail(v.val) : v \in {dep.params[p] : p \in
        {q \in DOMAIN dep.params :
            /\ isinstance_str(dep.params[q])
            /\ startswith_dollar(dep.params[q].val)
            /\ ~contains_barbar(dep.params[q].val)}}}

(* classify with a name the schema does not declare taken as optional *)
classify_unknown_optional(var_name, required_vars, optional_vars) ==
    IF var_name \in required_vars THEN "required" ELSE "optional"

(* classify with the optional flag ignored *)
classify_always_required(var_name, required_vars, optional_vars) == "required"

(* "required" or "optional" for a referenced name *)
classify(var_name, required_vars, optional_vars) ==
    IF var_name \in required_vars THEN "required"
    ELSE IF var_name \in optional_vars THEN "optional"
    ELSE "required"

(* the pass adding a step's outputs only when the step misses nothing *)
validate_dep_update_if_satisfied(dep, st, variables) ==
    LET required_vars == schema_required_vars(variables)
        optional_vars == schema_optional_vars(variables)
        refs == validator_bare_refs(dep)
        tool_required ==
            {n \in refs : classify(n, required_vars, optional_vars) = "required"}
        tool_optional ==
            {n \in refs : classify(n, required_vars, optional_vars) = "optional"}
        missing_req == tool_required \ st.current_vars
        missing_opt == tool_optional \ st.current_vars
    IN [current_vars |-> IF missing_req = {} /\ missing_opt = {}
                         THEN st.current_vars \cup dep.provided_vars
                         ELSE st.current_vars,
        missing_required |-> st.missing_required \o SetToSeq(missing_req),
        missing_optional |-> st.missing_optional \o SetToSeq(missing_opt)]

(* the pass without "current_vars.update(dep.provided_vars)" *)
validate_dep_without_update(dep, st, variables) ==
    LET required_vars == schema_required_vars(variables)
        optional_vars == schema_optional_vars(variables)
        refs == validator_bare_refs(dep)
        tool_required ==
            {n \in refs : classify(n, required_vars, optional_vars) = "required"}
        tool_optional ==
            {n \in refs : classify(n, required_vars, optional_vars) = "optional"}
    IN [current_vars |-> st.current_vars,
        missing_required |-> st.missing_required \o SetToSeq(tool_required \ st.current_vars),
        missing_optional |-> st.missing_optional \o SetToSeq(tool_optional \ st.current_vars)]

(* the pass giving up at the first step that misses a required variable *)
validate_dep_until_first_miss(dep, st, variables) ==
    LET required_vars == schema_required_vars(variables)
        optional_vars == schema_optional_vars(variables)
        refs == validator_bare_refs(dep)
        tool_required ==
            {n \in refs : classify(n, required_vars, optional_vars) = "required"}
        tool_optional ==
            {n \in refs : classify(n, required_vars, optional_vars) = "optional"}
    IN IF st.missing_required # <<>> THEN st
       ELSE [current_vars |-> st.current_vars \cup dep.provided_vars,
             missing_required |->
                 st.missing_required \o SetToSeq(tool_required \ st.current_vars),
             missing_optional |->
                 st.missing_optional \o SetToSeq(tool_optional \ st.current_vars)]

(* The variables the validator holds before it examines dep: nothing is    *)
(* carried over but current_vars and the two lists.                        *)
validate_dep(dep, st, variables) ==
    LET required_vars == schema_required_vars(variables)
        optional_vars == schema_optional_vars(variables)
        refs == validator_bare_refs(dep)
        tool_required ==
            {n \in refs : classify(n, required_vars, optional_vars) = "required"}
        tool_optional ==
            {n \in refs : classify(n, required_vars, optional_vars) = "optional"}
        missing_req == tool_required \ st.current_vars
        missing_opt == tool_optional \ st.current_vars
    IN [current_vars |-> st.current_vars \cup dep.provided_vars,
        missing_required |-> st.missing_required \o SetToSeq(missing_req),
        missing_optional |-> st.missing_optional \o SetToSeq(missing_opt)]

(* the verdict with the comparison slipped to >= *)
is_valid_of_nonnegative(missing_required) == Len(missing_required) >= 0

is_valid_of(missing_required) == Len(missing_required) = 0

RECURSIVE validate_from(_, _, _, _)
validate_from(dependencies, i, st, variables) ==
    IF i > Len(dependencies) THEN st
    ELSE validate_from(dependencies, i + 1,
                       validate_dep(dependencies[i], st, variables), variables)

(* the returned triple *)
validate_dependencies(dependencies, available_vars, variables) ==
    LET st == validate_from(dependencies, 1,
                  [current_vars |-> available_vars,
                   missing_required |-> <<>>,
                   missing_optional |-> <<>>], variables)
    IN [is_valid |-> is_valid_of(st.missing_required),
        missing_required |-> SetToSeq(Range(st.missing_required)),
        missing_optional |-> SetToSeq(Range(st.missing_optional))]

----------------------------------------------------------------------------
(* DependencyPlanner.reorder_tool_plan *)

(* readiness decided on the descriptor's required_vars *)
truly_required_with_defaults(dep) == dep.required_vars

truly_required(dep) ==
    {Tail(v.val) : v \in {dep.params[p] : p \in
        {q \in DOMAIN dep.params :
            /\ isinstance_str(dep.params[q])
            /\ startswith_dollar(dep.params[q].val)
            /\ ~contains_barbar(dep.params[q].val)}}}

(* for i, dep in enumerate(remaining_deps): the ready ones, by index *)
RECURSIVE enumerate_ready(_, _, _)
enumerate_ready(remaining_deps, i, current_vars) ==
    IF i > Len(remaining_deps) THEN <<>>
    ELSE (IF truly_required(remaining_deps[i]) \subseteq current_vars
          THEN <<(<<i, remaining_deps[i]>>)>> ELSE <<>>)
         \o enumerate_ready(remaining_deps, i + 1, current_vars)

(* a fallback that takes the first remaining step only *)
enumerate_first(remaining_deps) == <<(<<1, remaining_deps[1]>>)>>

(* for i, dep in enumerate(remaining_deps): all of them *)
enumerate_all(remaining_deps) ==
    [i \in 1..Len(remaining_deps) |-> <<i, remaining_deps[i]>>]

(* the round without its fallback branch *)
executable_now_no_fallback(remaining_deps, current_vars) ==
    enumerate_ready(remaining_deps, 1, current_vars)

(* the round taking every remaining step, ready or not *)
executable_now_always_all(remaining_deps, current_vars) == enumerate_all(remaining_deps)

executable_now_of(remaining_deps, current_vars) ==
    LET ready == enumerate_ready(remaining_deps, 1, current_vars)
    IN IF ready = <<>> THEN enumerate_all(remaining_deps) ELSE ready

(* list.sort(key=lambda x: x[1].step_index): stable *)
RECURSIVE insert_by_step_index(_, _)
insert_by_step_index(sorted, x) ==
    IF sorted = <<>> THEN <<x>>
    ELSE IF sorted[Len(sorted)][2].step_index <= x[2].step_index
         THEN Append(sorted, x)
         ELSE Append(insert_by_step_index(SubSeq(sorted, 1, Len(sorted) - 1), x),
                     sorted[Len(sorted)])

RECURSIVE sort_by_step_index(_)
sort_by_step_index(pairs) ==
    IF pairs = <<>> THEN <<>>
    ELSE insert_by_step_index(
             sort_by_step_index(SubSeq(pairs, 1, Len(pairs) - 1)), pairs[Len(pairs)])

reversed(s) == [i \in 1..Len(s) |-> s[Len(s) + 1 - i]]

(* the round's loop visiting executable_now front to back *)
execution_sequence_unreversed(executable_now) == sort_by_step_index(executable_now)

(* the order in which the round's loop visits executable_now *)
execution_sequence(executable_now) == reversed(sort_by_step_index(executable_now))

(* list.pop(index) *)
pop(list, index) == [i \in 1..(Len(list) - 1) |-> IF i < index THEN list[i] ELSE list[i + 1]]

(* the loop assigning the step's outputs to current_vars instead of adding *)
RECURSIVE execute_tools_assigning(_, _)
execute_tools_assigning(todo, st) ==
    IF todo = <<>> \/ st.raised # NoneStr THEN st
    ELSE LET index == todo[1][1]
             dep == todo[1][2]
             in_range == index \in 1..Len(st.remaining_deps)
         IN execute_tools_assigning(Tail(todo),
                [ordered_tools |-> Append(st.ordered_tools, dep.original_step),
                 current_vars |-> dep.provided_vars,
                 remaining_deps |-> IF in_range THEN pop(st.remaining_deps, index)
                                    ELSE st.remaining_deps,
                 executed_in_round |-> in_range \/ st.executed_in_round,
                 raised |-> IF in_range THEN NoneStr ELSE "IndexError"])

(* for index, dep in ...: append, update, pop; an out-of-range pop raises  *)
(* IndexError and leaves the loop.                                          *)
RECURSIVE execute_tools(_, _)
execute_tools(todo, st) ==
    IF todo = <<>> \/ st.raised # NoneStr THEN st
    ELSE LET index == todo[1][1]
             dep == todo[1][2]
             in_range == index \in 1..Len(st.remaining_deps)
         IN execute_tools(Tail(todo),
                [ordered_tools |-> Append(st.ordered_tools, dep.original_step),
                 current_vars |-> st.current_vars \cup dep.provided_vars,
                 remaining_deps |-> IF in_range THEN pop(st.remaining_deps, index)
                                    ELSE st.remaining_deps,
                 executed_in_round |-> in_range \/ st.executed_in_round,
                 raised |-> IF in_range THEN NoneStr ELSE "IndexError"])

(* one iteration of the while loop *)
reorder_round(st) ==
    execute_tools(
        execution_sequence(executable_now_of(st.remaining_deps, st.current_vars)),
        [st EXCEPT !.executed_in_round = FALSE])

----------------------------------------------------------------------------
(* DependencyPlanner._replace_variables and the finalizing loop *)

(* dict.get(key, default) *)
dict_get(d, key, default) == IF key \in DOMAIN d THEN d[key] ELSE default

replace_value(value, variables) ==
    IF isinstance_str(value) /\ startswith_dollar(value.val)
    THEN dict_get(variables, Tail(value.val), None)
    ELSE IF isinstance_str(value) /\ contains_barbar(value.val)
    THEN LET parts == split_barbar(value.val)
         IN IF Len(parts) = 2
            THEN LET var_part == strip(parts[1], Whitespace)
                     default_part == strip(strip(parts[2], Whitespace), Quotes)
                 IN IF startswith_dollar(var_part)
                    THEN dict_get(variables, Tail(var_part), PyStr(default_part))
                    ELSE value
            ELSE value
    ELSE value

_replace_variables(params, variables) ==
    [key \in DOMAIN params |-> replace_value(params[key], variables)]

(* _replace_variables writing the resolved values into the dict it is given *)
params_replaced_in_place(params, variables) == _replace_variables(params, variables)

(* _replace_variables fills a new dict ("replaced = {}"): the raw params   *)
(* it was given are as before                                               *)
params_after_replace(params, variables) == params

(* intent_config.tool_plan after the finalizing loop has gone over every   *)
(* step of the ordered plan                                                 *)
tool_plan_after_finalize(plan, variables) ==
    [i \in 1..Len(plan) |->
        [plan[i] EXCEPT !.params = params_after_replace(@, variables)]]

(* the finalizing loop without its None filter *)
remove_none_kept(params) == params

(* {k: v for k, v in params.items() if v is not None} *)
remove_none(params) ==
    [k \in {q \in DOMAIN params : params[q] # None} |-> params[k]]

(* the finalized step built without the raw step's post_process *)
finalize_step_without_post_process(tool_step, variables) ==
    [tool |-> tool_step.tool,
     params |-> remove_none(_replace_variables(tool_step.params, variables)),
     post_process |-> NoneStr,
     note |-> tool_step.note]

finalize_step(tool_step, variables) ==
    [tool |-> tool_step.tool,
     params |-> remove_none(_replace_variables(tool_step.params, variables)),
     post_process |-> tool_step.post_process,
     note |-> tool_step.note]

tool_names(plan) == [i \in 1..Len(plan) |-> plan[i].tool]

(* reordered decided by the length comparison alone *)
reordered_by_length(ordered_plan, plan) == Len(ordered_plan) # Len(plan)

reordered_of(ordered_plan, plan) ==
    Len(ordered_plan) # Len(plan) \/ tool_names(ordered_plan) # tool_names(plan)

RECURSIVE tools_with_dependencies_of(_)
tools_with_dependencies_of(dependencies) ==
    IF dependencies = <<>> THEN <<>>
    ELSE (IF dependencies[1].required_vars # {}
          THEN <<dependencies[1].tool_name>> ELSE <<>>)
         \o tools_with_dependencies_of(Tail(dependencies))

success_result(plan, dependencies, ordered_plan, variables) ==
    LET final_plan == [i \in 1..Len(ordered_plan) |->
                          finalize_step(ordered_plan[i], variables)]
    IN [success |-> TRUE,
        tool_plan |-> final_plan,
        execution_order |-> tool_names(final_plan),
        dependency_analysis |->
           [total_tools |-> Len(dependencies),
            reordered |-> reordered_of(ordered_plan, plan),
            available_vars |-> SetToSeq(DOMAIN variables),
            tools_with_dependencies |-> tools_with_dependencies_of(dependencies)]]

missing_result(returned, variables) ==
    [success |-> FALSE,
     error |-> <<"Cannot satisfy dependencies. Missing required variables: ",
                 returned.missing_required>>,
     missing_variables |-> returned.missing_required,
     missing_optional_variables |-> returned.missing_optional,
     available_variables |-> SetToSeq(DOMAIN variables)]

empty_plan_result ==
    [success |-> FALSE, error |-> <<"No tool plan defined for this intent">>]

(* plan_tool_execution without its except clause: the error propagates *)
exception_escapes(e) == [raised |-> e]

exception_result(e) ==
    [success |-> FALSE, error |-> <<"Dependency planning failed: ", e>>]

(* reorder_tool_plan, the while loop from a given state on *)
RECURSIVE reorder_from(_)
reorder_from(st) ==
    IF st.remaining_deps = <<>> \/ ~st.executed_in_round \/ st.raised # NoneStr THEN st
    ELSE reorder_from(reorder_round(st))

reorder_tool_plan(dependencies, available_vars) ==
    reorder_from([ordered_tools |-> <<>>,
                  current_vars |-> available_vars,
                  remaining_deps |-> dependencies,
                  executed_in_round |-> TRUE,
                  raised |-> NoneStr])

(* plan_tool_execution as one call *)
plan_tool_execution(plan, variables, extracted_vars) ==
    IF plan = <<>> THEN empty_plan_result
    ELSE IF schema_raises(variables) THEN exception_result("AttributeError")
    ELSE LET dependencies == analyze_dependencies(plan)
             returned == validate_dependencies(dependencies, DOMAIN extracted_vars,
                                               variables)
         IN IF ~returned.is_valid THEN missing_result(returned, extracted_vars)
            ELSE LET st == reorder_tool_plan(dependencies, DOMAIN extracted_vars)
                 IN IF st.raised # NoneStr THEN exception_result(st.raised)
                    ELSE success_result(plan, dependencies, st.ordered_tools,
                                        extracted_vars)

----------------------------------------------------------------------------
(* SmartToolPlanner.create_smart_fallback_plan *)

(* the pass counting a blocked step's outputs as available, as the         *)
(* validator does                                                           *)
RECURSIVE smart_fallback_from_optimistic(_, _, _)
smart_fallback_from_optimistic(plan, i, st) ==
    IF i > Len(plan) THEN st
    ELSE LET dep == ToolDependency(plan[i], 0)
         IN smart_fallback_from_optimistic(plan, i + 1,
                IF can_execute_after(dep, st.available_vars)
                THEN [available_vars |-> st.available_vars \cup dep.provided_vars,
                      executable_tools |-> Append(st.executable_tools, plan[i]),
                      blocked_tools |-> st.blocked_tools]
                ELSE [available_vars |-> st.available_vars \cup dep.provided_vars,
                      executable_tools |-> st.executable_tools,
                      blocked_tools |->
                          Append(st.blocked_tools,
                                 [tool |-> dep.tool_name,
                                  missing |-> SetToSeq(dep.required_vars
                                                           \ st.available_vars)])])

(* "for tool_step in intent_config.tool_plan", from step i on *)
RECURSIVE smart_fallback_from(_, _, _)
smart_fallback_from(plan, i, st) ==
    IF i > Len(plan) THEN st
    ELSE LET dep == ToolDependency(plan[i], 0)
         IN smart_fallback_from(plan, i + 1,
                IF can_execute_after(dep, st.available_vars)
                THEN [available_vars |-> st.available_vars \cup dep.provided_vars,
                      executable_tools |-> Append(st.executable_tools, plan[i]),
                      blocked_tools |-> st.blocked_tools]
                ELSE [available_vars |-> st.available_vars,
                      executable_tools |-> st.executable_tools,
                      blocked_tools |->
                          Append(st.blocked_tools,
                                 [tool |-> dep.tool_name,
                                  missing |-> SetToSeq(dep.required_vars
                                                           \ st.available_vars)])])

create_smart_fallback_plan(plan, partial_vars, missing_vars) ==
    LET st == smart_fallback_from(plan, 1,
                  [available_vars |-> DOMAIN partial_vars,
                   executable_tools |-> <<>>,
                   blocked_tools |-> <<>>])
    IN [partial_execution_possible |-> Len(st.executable_tools) > 0,
        executable_tools |-> st.executable_tools,
        blocked_tools |-> st.blocked_tools,
        missing_for_completion |-> missing_vars,
        suggestion |-> <<"I can execute ", Len(st.executable_tools), " of ", Len(plan),
                         " tools. To complete the task, I need: ", missing_vars>>]

----------------------------------------------------------------------------
(* Inputs *)

StepCreateIssue ==
    [tool |-> "create_issue",
     params |-> [summary |-> PyStr(<<"$", "summary">>)],
     post_process |-> "extract_issue_key", note |-> NoneStr]

StepAssignIssue ==
    [tool |-> "assign_issue",
     params |-> [issueKey |-> PyStr(<<"$", "issue_key">>),
                 assignee |-> PyStr(<<"$", "assignee">>)],
     post_process |-> NoneStr, note |-> NoneStr]

StepGetTransitions ==
    [tool |-> "get_transitions",
     params |-> [issueKey |-> PyStr(<<"$", "issue_key">>)],
     post_process |-> "find_transition_id", note |-> "Find the transition"]

StepTransitionIssue ==
    [tool |-> "transition_issue",
     params |-> [transitionId |-> PyStr(<<"$", "transition_id">>)],
     post_process |-> NoneStr, note |-> NoneStr]

StepListProjects ==
    [tool |-> "list_projects",
     params |-> [maxResults |-> PyInt(<<"10">>)],
     post_process |-> "count_results", note |-> NoneStr]

StepSearchIssues ==
    [tool |-> "search_issues",
     params |-> [issueType |-> PyStr(<<"Bug">>)],
     post_process |-> NoneStr, note |-> NoneStr]

StepUpdatePriority ==
    [tool |-> "update_issue",
     params |-> [priority |->
                    PyStr(<<"$", "priority", " ", "|", "|", " ", "\"", "Medium", "\"">>)],
     post_process |-> NoneStr, note |-> NoneStr]

(* a value with two separators: $labels || "x" || "y" *)
StepAddLabels ==
    [tool |-> "add_labels",
     params |-> [labels |->
                    PyStr(<<"$", "labels", " ", "|", "|", " ", "\"", "x", "\"",
                            " ", "|", "|", " ", "\"", "y", "\"">>)],
     post_process |-> NoneStr, note |-> NoneStr]

StepCatalog ==
    {StepCreateIssue, StepAssignIssue, StepGetTransitions, StepTransitionIssue,
     StepListProjects, StepSearchIssues, StepUpdatePriority, StepAddLabels}

Plans == UNION {[1..n -> StepCatalog] : n \in 0..MaxSteps}

PoolNames == {<<"summary">>, <<"assignee">>, <<"issue_key">>, <<"priority">>}

PoolValue(name) ==
    CASE name = <<"summary">> -> PyStr(<<"Fix", " ", "bug">>)
      [] name = <<"assignee">> -> PyStr(<<"jane">>)
      [] name = <<"issue_key">> -> PyStr(<<"PROJ-1">>)
      [] name = <<"priority">> -> PyStr(<<"High">>)

(* a key may be present with a null value *)
PoolValues(name) ==
    IF name = <<"issue_key">> THEN {PoolValue(name), None} ELSE {PoolValue(name)}

Pools ==
    UNION {{pool \in [K -> {PoolValue(n) : n \in K} \cup {None}] :
                \A n \in K : pool[n] \in PoolValues(n)} : K \in SUBSET PoolNames}

(* the missing_vars argument of create_smart_fallback_plan *)
MissingVarsLists == {<<>>, <<(<<"issue_key">>)>>}

(* intent_config.variables: only membership of an entry matters to the     *)
(* planner, so the list is a set of {name, required} entries.               *)
SchemaEntries ==
    {[name |-> <<"issue_key">>, required |-> TRUE],
     [name |-> <<"issue_key">>, required |-> FALSE],
     [name |-> <<"priority">>, required |-> TRUE],
     [name |-> <<"transition_id">>, required |-> FALSE]}

ValidSchemas == SUBSET SchemaEntries

(* an entry of the wrong shape: a bare string where a dict is expected *)
InvalidSchemaEntry == PyStr(<<"issue_key">>)

Schemas == ValidSchemas \cup {{InvalidSchemaEntry}}

----------------------------------------------------------------------------
(* One call of a public entry point *)

VARIABLES call, tool_plan, intent_variables, extracted_vars, pc, dependencies,
          dep_i, v_current_vars, missing_required, missing_optional,
          remaining_deps, current_vars, ordered_tools, executed_in_round,
          rounds, fallbacks, result, other

vars == <<call, tool_plan, intent_variables, extracted_vars, pc, dependencies,
          dep_i, v_current_vars, missing_required, missing_optional,
          remaining_deps, current_vars, ordered_tools, executed_in_round,
          rounds, fallbacks, result, other>>

inputs == <<call, tool_plan, intent_variables, extracted_vars>>
validator_vars == <<dep_i, v_current_vars, missing_required, missing_optional>>
(* rounds counts the iterations of the scheduler's while loop, fallbacks   *)
(* those of them that found no ready step ("if not executable_now").       *)
scheduler_vars == <<remaining_deps, current_vars, ordered_tools,
                    executed_in_round, rounds, fallbacks>>

NoResult == [pending |-> TRUE]

(* another planning call on the same IntentConfig (of another request, or  *)
(* the earlier attempt of a retry): its own pool, descriptors, validator   *)
(* state and scheduler state; NoCall when there is none                     *)
NoCall == [pc |-> "absent"]

new_call(pool) ==
    [pc |-> "start",
     extracted_vars |-> pool,
     dependencies |-> <<>>,
     dep_i |-> 1,
     validated |-> [current_vars |-> {}, missing_required |-> <<>>,
                    missing_optional |-> <<>>],
     scheduled |-> [ordered_tools |-> <<>>, current_vars |-> {},
                    remaining_deps |-> <<>>, executed_in_round |-> TRUE,
                    raised |-> NoneStr],
     result |-> NoResult]

Init ==
    /\ call \in {"plan_tool_execution", "reorder_tool_plan", "create_smart_fallback_plan"}
    /\ tool_plan \in Plans
    /\ extracted_vars \in Pools
    /\ intent_variables \in (IF call = "plan_tool_execution" THEN Schemas ELSE {{}})
    /\ pc = "start"
    /\ dependencies = <<>>
    /\ dep_i = 1
    /\ v_current_vars = {}
    /\ missing_required = <<>>
    /\ missing_optional = <<>>
    /\ remaining_deps = <<>>
    /\ current_vars = {}
    /\ ordered_tools = <<>>
    /\ executed_in_round = TRUE
    /\ rounds = 0
    /\ fallbacks = 0
    /\ result = NoResult
    /\ other = NoCall

(* plan_tool_execution without its empty-plan check *)
EmptyPlan_unchecked ==
    /\ pc = "start"
    /\ call = "plan_tool_execution"
    /\ tool_plan = <<>>
    /\ dependencies' = analyze_dependencies(tool_plan)
    /\ dep_i' = 1
    /\ v_current_vars' = DOMAIN extracted_vars
    /\ missing_required' = <<>>
    /\ missing_optional' = <<>>
    /\ pc' = "validate"
    /\ UNCHANGED <<inputs, other, scheduler_vars, result>>

(* plan_tool_execution, "if not intent_config.tool_plan" *)
EmptyPlan ==
    /\ pc = "start"
    /\ call = "plan_tool_execution"
    /\ tool_plan = <<>>
    /\ result' = empty_plan_result
    /\ pc' = "done"
    /\ UNCHANGED <<inputs, other, dependencies, validator_vars, scheduler_vars>>

(* plan_tool_execution taking only the keys bound to a value as available *)
StartValidation_bound_keys ==
    /\ pc = "start"
    /\ call = "plan_tool_execution"
    /\ tool_plan # <<>>
    /\ dependencies' = analyze_dependencies(tool_plan)
    /\ dep_i' = 1
    /\ v_current_vars' = {n \in DOMAIN extracted_vars : extracted_vars[n] # None}
    /\ missing_required' = <<>>
    /\ missing_optional' = <<>>
    /\ IF schema_raises(intent_variables)
       THEN /\ result' = exception_result("AttributeError")
            /\ pc' = "done"
       ELSE /\ pc' = "validate"
            /\ UNCHANGED result
    /\ UNCHANGED <<inputs, other, scheduler_vars>>

(* plan_tool_execution up to the validator's loop; the validator reads    *)
(* the schema before the loop, and what it raises there is caught by       *)
(* plan_tool_execution's except clause                                      *)
StartValidation ==
    /\ pc = "start"
    /\ call = "plan_tool_execution"
    /\ tool_plan # <<>>
    /\ dependencies' = analyze_dependencies(tool_plan)
    /\ dep_i' = 1
    /\ v_current_vars' = DOMAIN extracted_vars
    /\ missing_required' = <<>>
    /\ missing_optional' = <<>>
    /\ IF schema_raises(intent_variables)
       THEN /\ result' = exception_result("AttributeError")
            /\ pc' = "done"
       ELSE /\ pc' = "validate"
            /\ UNCHANGED result
    /\ UNCHANGED <<inputs, other, scheduler_vars>>

(* validate_dependencies, one iteration of "for dep in dependencies" *)
ValidateDep ==
    /\ pc = "validate"
    /\ dep_i <= Len(dependencies)
    /\ LET st == validate_dep(dependencies[dep_i],
                     [current_vars |-> v_current_vars,
                      missing_required |-> missing_required,
                      missing_optional |-> missing_optional], intent_variables)
       IN /\ v_current_vars' = st.current_vars
          /\ missing_required' = st.missing_required
          /\ missing_optional' = st.missing_optional
    /\ dep_i' = dep_i + 1
    /\ UNCHANGED <<inputs, other, pc, dependencies, scheduler_vars, result>>

(* the returned triple with the two lists as collected *)
validator_returned_as_collected ==
    [is_valid |-> is_valid_of(missing_required),
     missing_required |-> missing_required,
     missing_optional |-> missing_optional]

validator_returned ==
    [is_valid |-> is_valid_of(missing_required),
     missing_required |-> SetToSeq(Range(missing_required)),
     missing_optional |-> SetToSeq(Range(missing_optional))]

(* validate_dependencies returns; plan_tool_execution fails or goes on to  *)
(* reorder_tool_plan                                                        *)
ValidateReturn ==
    /\ pc = "validate"
    /\ dep_i > Len(dependencies)
    /\ IF ~validator_returned.is_valid
       THEN /\ result' = missing_result(validator_returned, extracted_vars)
            /\ pc' = "done"
            /\ UNCHANGED scheduler_vars
       ELSE /\ remaining_deps' = dependencies
            /\ current_vars' = DOMAIN extracted_vars
            /\ ordered_tools' = <<>>
            /\ executed_in_round' = TRUE
            /\ rounds' = 0
            /\ fallbacks' = 0
            /\ pc' = "reorder"
            /\ UNCHANGED result
    /\ UNCHANGED <<inputs, other, dependencies, validator_vars>>

(* reorder_tool_plan called on analyze_dependencies(tool_plan) *)
StartReorder ==
    /\ pc = "start"
    /\ call = "reorder_tool_plan"
    /\ dependencies' = analyze_dependencies(tool_plan)
    /\ remaining_deps' = analyze_dependencies(tool_plan)
    /\ current_vars' = DOMAIN extracted_vars
    /\ ordered_tools' = <<>>
    /\ executed_in_round' = TRUE
    /\ rounds' = 0
    /\ fallbacks' = 0
    /\ pc' = "reorder"
    /\ UNCHANGED <<inputs, other, validator_vars, result>>

(* reorder_tool_plan, one iteration of "while remaining_deps" *)
ReorderRound ==
    /\ pc = "reorder"
    /\ remaining_deps # <<>>
    /\ executed_in_round
    /\ LET st == reorder_round([ordered_tools |-> ordered_tools,
                                current_vars |-> current_vars,
                                remaining_deps |-> remaining_deps,
                                executed_in_round |-> executed_in_round,
                                raised |-> NoneStr])
       IN /\ ordered_tools' = st.ordered_tools
          /\ current_vars' = st.current_vars
          /\ remaining_deps' = st.remaining_deps
          /\ executed_in_round' = st.executed_in_round
          /\ IF st.raised # NoneStr
             THEN /\ pc' = "done"
                  /\ result' = IF call = "plan_tool_execution"
                               THEN exception_result(st.raised)
                               ELSE [raised |-> st.raised]
             ELSE UNCHANGED <<pc, result>>
    /\ rounds' = rounds + 1
    /\ fallbacks' = IF enumerate_ready(remaining_deps, 1, current_vars) = <<>>
                    THEN fallbacks + 1 ELSE fallbacks
    /\ UNCHANGED <<inputs, other, dependencies, validator_vars>>

(* reorder_tool_plan returns ordered_tools to its caller *)
ReorderReturn ==
    /\ pc = "reorder"
    /\ call = "reorder_tool_plan"
    /\ remaining_deps = <<>> \/ ~executed_in_round
    /\ result' = [returned |-> ordered_tools]
    /\ pc' = "done"
    /\ UNCHANGED <<inputs, other, dependencies, validator_vars, scheduler_vars>>

(* plan_tool_execution from the return of reorder_tool_plan to its own *)
FinalizePlan ==
    /\ pc = "reorder"
    /\ call = "plan_tool_execution"
    /\ remaining_deps = <<>> \/ ~executed_in_round
    /\ result' = success_result(tool_plan, dependencies, ordered_tools, extracted_vars)
    /\ tool_plan' = tool_plan_after_finalize(tool_plan, extracted_vars)
    /\ pc' = "done"
    /\ UNCHANGED <<call, intent_variables, extracted_vars, other, dependencies,
                   validator_vars, scheduler_vars>>

(* create_smart_fallback_plan(intent_config, partial_vars, missing_vars):  *)
(* partial_vars is the call's pool                                          *)
SmartFallbackPlan ==
    /\ pc = "start"
    /\ call = "create_smart_fallback_plan"
    /\ \E missing_vars \in MissingVarsLists :
           result' = create_smart_fallback_plan(tool_plan, extracted_vars, missing_vars)
    /\ pc' = "done"
    /\ UNCHANGED <<inputs, other, dependencies, validator_vars, scheduler_vars>>

Next ==
    \/ EmptyPlan
    \/ StartValidation
    \/ ValidateDep
    \/ ValidateReturn
    \/ StartReorder
    \/ ReorderRound
    \/ ReorderReturn
    \/ FinalizePlan
    \/ SmartFallbackPlan

Spec == Init /\ [][Next]_vars

----------------------------------------------------------------------------
(* The retry of cli.py: a failed call with missing variables is followed   *)
(* by a second call on the same IntentConfig with the collected variables  *)
(* added to the pool; the first call is kept in other.                      *)

(* names the collector may bring along besides the missing ones *)
RetryExtraNames == {<<"priority">>}

(* the value collected, or defaulted, for a name *)
collected_value(name) ==
    IF name \in PoolNames THEN PoolValue(name) ELSE PyStr(<<"given">>)

(* complete_vars = extracted_variables, then update(additional_vars) *)
complete_vars(pool, collected) ==
    [n \in DOMAIN pool \cup collected |->
        IF n \in collected THEN collected_value(n) ELSE pool[n]]

finished_call ==
    [pc |-> "done",
     extracted_vars |-> extracted_vars,
     dependencies |-> dependencies,
     dep_i |-> dep_i,
     validated |-> [current_vars |-> v_current_vars,
                    missing_required |-> missing_required,
                    missing_optional |-> missing_optional],
     scheduled |-> [ordered_tools |-> ordered_tools, current_vars |-> current_vars,
                    remaining_deps |-> remaining_deps,
                    executed_in_round |-> executed_in_round, raised |-> NoneStr],
     result |-> result]

Retry ==
    /\ pc = "done"
    /\ call = "plan_tool_execution"
    /\ other = NoCall
    /\ ~result.success
    /\ "missing_variables" \in DOMAIN result
    /\ \E collected \in SUBSET (Range(result.missing_variables) \cup RetryExtraNames) :
           extracted_vars' = complete_vars(extracted_vars, collected)
    /\ other' = finished_call
    /\ pc' = "start"
    /\ dependencies' = <<>>
    /\ dep_i' = 1
    /\ v_current_vars' = {}
    /\ missing_required' = <<>>
    /\ missing_optional' = <<>>
    /\ remaining_deps' = <<>>
    /\ current_vars' = {}
    /\ ordered_tools' = <<>>
    /\ executed_in_round' = TRUE
    /\ rounds' = 0
    /\ fallbacks' = 0
    /\ result' = NoResult
    /\ UNCHANGED <<call, tool_plan, intent_variables>>

(* schemas with at most one entry *)
RetrySchemas == {variables \in Schemas : Cardinality(variables) <= 1}

RetryInit ==
    /\ Init
    /\ call = "plan_tool_execution"
    /\ intent_variables \in RetrySchemas

RetryNext ==
    \/ EmptyPlan
    \/ StartValidation
    \/ ValidateDep
    \/ ValidateReturn
    \/ ReorderRound
    \/ FinalizePlan
    \/ Retry

RetrySpec == RetryInit /\ [][RetryNext]_vars

----------------------------------------------------------------------------
(* Two planning calls on one IntentConfig, interleaved step by step *)

call_finalizes(o) ==
    /\ o.pc = "reorder"
    /\ o.scheduled.remaining_deps = <<>> \/ ~o.scheduled.executed_in_round

(* the next step of a planning call o: the steps are those of EmptyPlan,   *)
(* StartValidation, ValidateDep, ValidateReturn, ReorderRound, FinalizePlan *)
call_step(o, plan, variables) ==
    IF o.pc = "start"
    THEN IF plan = <<>>
         THEN [o EXCEPT !.pc = "done", !.result = empty_plan_result]
         ELSE LET started ==
                      [o EXCEPT !.dependencies = analyze_dependencies(plan),
                                !.dep_i = 1,
                                !.validated = [current_vars |-> DOMAIN o.extracted_vars,
                                               missing_required |-> <<>>,
                                               missing_optional |-> <<>>]]
              IN IF schema_raises(variables)
                 THEN [started EXCEPT !.pc = "done",
                                      !.result = exception_result("AttributeError")]
                 ELSE [started EXCEPT !.pc = "validate"]
    ELSE IF o.pc = "validate"
    THEN IF o.dep_i <= Len(o.dependencies)
         THEN [o EXCEPT !.validated = validate_dep(o.dependencies[o.dep_i], @, variables),
                        !.dep_i = @ + 1]
         ELSE LET returned ==
                      [is_valid |-> is_valid_of(o.validated.missing_required),
                       missing_required |-> SetToSeq(Range(o.validated.missing_required)),
                       missing_optional |-> SetToSeq(Range(o.validated.missing_optional))]
              IN IF ~returned.is_valid
                 THEN [o EXCEPT !.pc = "done",
                                !.result = missing_result(returned, o.extracted_vars)]
                 ELSE [o EXCEPT !.pc = "reorder",
                                !.scheduled = [ordered_tools |-> <<>>,
                                               current_vars |-> DOMAIN o.extracted_vars,
                                               remaining_deps |-> o.dependencies,
                                               executed_in_round |-> TRUE,
                                               raised |-> NoneStr]]
    ELSE IF call_finalizes(o)
    THEN [o EXCEPT !.pc = "done",
                   !.result = success_result(plan, o.dependencies,
                                             o.scheduled.ordered_tools, o.extracted_vars)]
    ELSE LET st == reorder_round(o.scheduled)
         IN IF st.raised # NoneStr
            THEN [o EXCEPT !.scheduled = st, !.pc = "done",
                           !.result = exception_result(st.raised)]
            ELSE [o EXCEPT !.scheduled = st]

OtherCallStep ==
    /\ other.pc \in {"start", "validate", "reorder"}
    /\ other' = call_step(other, tool_plan, intent_variables)
    /\ tool_plan' = IF call_finalizes(other)
                    THEN tool_plan_after_finalize(tool_plan, other.extracted_vars)
                    ELSE tool_plan
    /\ UNCHANGED <<call, intent_variables, extracted_vars, pc, dependencies,
                   validator_vars, scheduler_vars, result>>

TwoCallsPools ==
    {pool \in Pools : DOMAIN pool \subseteq {<<"issue_key">>, <<"summary">>}}

TwoCallsSchemas ==
    {{}, {[name |-> <<"transition_id">>, required |-> FALSE]}, {InvalidSchemaEntry}}

TwoCallsInit ==
    /\ call = "plan_tool_execution"
    /\ tool_plan \in Plans
    /\ extracted_vars \in TwoCallsPools
    /\ intent_variables \in TwoCallsSchemas
    /\ pc = "start"
    /\ dependencies = <<>>
    /\ dep_i = 1
    /\ v_current_vars = {}
    /\ missing_required = <<>>
    /\ missing_optional = <<>>
    /\ remaining_deps = <<>>
    /\ current_vars = {}
    /\ ordered_tools = <<>>
    /\ executed_in_round = TRUE
    /\ rounds = 0
    /\ fallbacks = 0
    /\ result = NoResult
    /\ other \in {new_call(pool) : pool \in TwoCallsPools}

TwoCallsNext ==
    \/ EmptyPlan
    \/ StartValidation
    \/ ValidateDep
    \/ ValidateReturn
    \/ ReorderRound
    \/ FinalizePlan
    \/ OtherCallStep

TwoCallsSpec == TwoCallsInit /\ [][TwoCallsNext]_vars

----------------------------------------------------------------------------
(* Properties *)

TypeOK == pc \in {"start", "validate", "reorder", "done"}

(* How the templates of a raw plan read: a bare reference is "$name"; a    *)
(* default-bearing reference is "$name || default" (one separator).         *)
IsBareRef(value) ==
    isinstance_str(value) /\ startswith_dollar(value.val) /\ ~contains_barbar(value.val)

IsDefaultRef(value) ==
    /\ isinstance_str(value)
    /\ startswith_dollar(value.val)
    /\ contains_barbar(value.val)
    /\ Len(split_barbar(value.val)) = 2

DefaultRefName(value) == Tail(strip(split_barbar(value.val)[1], Whitespace))

DefaultRefLiteral(value) ==
    PyStr(strip(strip(split_barbar(value.val)[2], Whitespace), Quotes))

IsReference(value) ==
    isinstance_str(value) /\ (startswith_dollar(value.val) \/ contains_barbar(value.val))

BareNames(step) ==
    {Tail(step.params[p].val) : p \in {q \in DOMAIN step.params : IsBareRef(step.params[q])}}

DefaultNames(step) ==
    {DefaultRefName(step.params[p]) :
        p \in {q \in DOMAIN step.params : IsDefaultRef(step.params[q])}}

(* names provided by the steps declared before position i *)
ProvidedBefore(plan, i) ==
    UNION {_get_provided_variables(plan[j].post_process) : j \in 1..(i - 1)}

(* bare references of step i that the pool and the earlier steps leave unmet *)
UnmetAt(plan, i, pool_names) ==
    BareNames(plan[i]) \ (pool_names \cup ProvidedBefore(plan, i))

PlanCallDone == pc = "done" /\ call = "plan_tool_execution"
SchedulerCallDone == pc = "done" /\ call = "reorder_tool_plan"

NoVariableReferences(plan) ==
    \A i \in 1..Len(plan) : \A p \in DOMAIN plan[i].params : ~IsReference(plan[i].params[p])

(* C1: for a plan without any variable reference the scheduler returns the *)
(* steps in their original order, and a successful planning call reports   *)
(* reordered = false.                                                       *)
C1_NoReferencesKeepOrder ==
    NoVariableReferences(tool_plan) =>
        /\ SchedulerCallDone => result = [returned |-> tool_plan]
        /\ (PlanCallDone /\ result.success) =>
               ~result.dependency_analysis.reordered

(* C2: a parameter "$name || default" is finalized to pool[name] when name *)
(* is in the pool and to the default literal otherwise; it is never         *)
(* dropped.                                                                 *)
C2_DefaultFallback ==
    (PlanCallDone /\ result.success) =>
        \A k \in 1..Len(ordered_tools) :
            \A p \in DOMAIN ordered_tools[k].params :
                LET value == ordered_tools[k].params[p]
                    final == result.tool_plan[k].params
                IN IsDefaultRef(value) =>
                      /\ p \in DOMAIN final
                      /\ final[p] = IF DefaultRefName(value) \in DOMAIN extracted_vars
                                    THEN extracted_vars[DefaultRefName(value)]
                                    ELSE DefaultRefLiteral(value)

(* C3: for the plan [create_issue, assign_issue] and the pool {summary,    *)
(* assignee} planning succeeds with no missing required variable, order    *)
(* [A, B], and B finalized with assignee and without issueKey.              *)
C3_CreateAndAssignScenario ==
    (/\ PlanCallDone
     /\ tool_plan = <<StepCreateIssue, StepAssignIssue>>
     /\ DOMAIN extracted_vars = {<<"summary">>, <<"assignee">>}) =>
        /\ result.success
        /\ missing_required = <<>>
        /\ ordered_tools = <<StepCreateIssue, StepAssignIssue>>
        /\ DOMAIN result.tool_plan[2].params = {"assignee"}
        /\ result.tool_plan[2].params.assignee = extracted_vars[<<"assignee">>]

Count(x, s) == Cardinality({i \in 1..Len(s) : s[i] = x})

IsPermutation(s, t) ==
    /\ Len(s) = Len(t)
    /\ \A x \in Range(s) \cup Range(t) : Count(x, s) = Count(x, t)

original_steps(deps) == [i \in 1..Len(deps) |-> deps[i].original_step]

(* C4: the scheduler's output is a permutation of the input steps, each    *)
(* step exactly once, fallback rounds included; while the loop runs, the   *)
(* scheduled and the remaining steps together are the input.                *)
C4_OutputIsPermutation ==
    /\ pc = "reorder" =>
           IsPermutation(ordered_tools \o original_steps(remaining_deps), tool_plan)
    /\ SchedulerCallDone =>
           /\ "returned" \in DOMAIN result
           /\ IsPermutation(result.returned, tool_plan)
    /\ (PlanCallDone /\ result.success) => IsPermutation(ordered_tools, tool_plan)

C4_Witness ==
    /\ SchedulerCallDone
    /\ fallbacks > 0
    /\ Len(tool_plan) >= 2
    /\ result.returned # tool_plan

(* C5: every round of the scheduler, ready or fallback, removes at least   *)
(* one step from the remaining ones, a plan of n steps takes at most n     *)
(* rounds, and the loop is left only with nothing remaining.                *)
C5_SchedulerTerminates ==
    [][/\ rounds' = rounds + 1 => Len(remaining_deps') < Len(remaining_deps)
       /\ rounds' <= Len(tool_plan')
       /\ (pc = "reorder" /\ pc' = "done") => remaining_deps' = <<>>]_vars

C5_Witness ==
    /\ pc = "done"
    /\ rounds >= 2
    /\ rounds = Len(tool_plan)
    /\ remaining_deps = <<>>

ClassifiedRequiredOrAbsent(v, schema) ==
    /\ schema \in ValidSchemas
    /\ \/ [name |-> v, required |-> TRUE] \in schema
       \/ \A e \in schema : e.name # v

ClassifiedOptional(v, schema) ==
    /\ schema \in ValidSchemas
    /\ [name |-> v, required |-> FALSE] \in schema
    /\ [name |-> v, required |-> TRUE] \notin schema

(* C6: a bare reference of a step to a variable that the schema classifies *)
(* required or does not declare, that is not in the pool and that no       *)
(* earlier step provides, makes the validator return ok = false with the   *)
(* name among the missing required ones.                                    *)
C6_UnmetRequiredReported ==
    PlanCallDone =>
        \A i \in 1..Len(tool_plan) :
            \A v \in UnmetAt(tool_plan, i, DOMAIN extracted_vars) :
                ClassifiedRequiredOrAbsent(v, intent_variables) =>
                    /\ ~validator_returned.is_valid
                    /\ v \in Range(validator_returned.missing_required)
                    /\ ~result.success
                    /\ v \in Range(result.missing_variables)

C6_Witness ==
    /\ PlanCallDone
    /\ intent_variables \in ValidSchemas
    /\ \E i \in 1..Len(tool_plan) :
           /\ i > 1
           /\ ProvidedBefore(tool_plan, i) # {}
           /\ \E v \in UnmetAt(tool_plan, i, DOMAIN extracted_vars) :
                  /\ \A e \in intent_variables : e.name # v
                  /\ v \in Range(result.missing_variables)

OnlyDefaultNames(plan) ==
    UNION {DefaultNames(plan[i]) : i \in 1..Len(plan)}
        \ UNION {BareNames(plan[i]) : i \in 1..Len(plan)}

(* C7: a variable the plan references only through "$v || default"        *)
(* parameters is never among the validator's missing required or missing   *)
(* optional names, whatever the pool and the schema.                        *)
C7_DefaultNeverMissing ==
    call = "plan_tool_execution" =>
        \A v \in OnlyDefaultNames(tool_plan) :
            /\ v \notin Range(missing_required)
            /\ v \notin Range(missing_optional)
            /\ (pc = "done" /\ "missing_variables" \in DOMAIN result) =>
                   /\ v \notin Range(result.missing_variables)
                   /\ v \notin Range(result.missing_optional_variables)

C7_Witness ==
    /\ PlanCallDone
    /\ <<"priority">> \in OnlyDefaultNames(tool_plan)
    /\ <<"priority">> \notin DOMAIN extracted_vars
    /\ [name |-> <<"priority">>, required |-> TRUE] \in intent_variables
    /\ "missing_variables" \in DOMAIN result
    /\ result.missing_variables # <<>>

(* C8: a descriptor's required-variable set is exactly the names of its    *)
(* bare "$name" parameters, so a default-bearing reference never makes the *)
(* step non-ready nor lists its tool in tools_with_dependencies.            *)
C8_RequiredVarsAreBareNames ==
    pc # "start" =>
        /\ \A i \in 1..Len(dependencies) :
              /\ dependencies[i].required_vars = BareNames(tool_plan[i])
              /\ BareNames(tool_plan[i]) = {} => can_execute_after(dependencies[i], {})
        /\ (PlanCallDone /\ result.success) =>
              \A i \in 1..Len(tool_plan) :
                  BareNames(tool_plan[i]) = {} =>
                      tool_plan[i].tool \notin
                          Range(result.dependency_analysis.tools_with_dependencies)

(* a variable that two different steps reference bare and that neither the *)
(* pool nor any step provides                                               *)
SharedUnprovided(plan, pool_names) ==
    {v \in UNION {BareNames(plan[i]) : i \in 1..Len(plan)} :
        /\ v \notin pool_names
        /\ v \notin ProvidedBefore(plan, Len(plan) + 1)
        /\ \E i, j \in 1..Len(plan) :
               i # j /\ v \in BareNames(plan[i]) /\ v \in BareNames(plan[j])}

(* C9: a round that finds no ready step emits every remaining step; two    *)
(* steps requiring a variable that nobody provides are both returned by    *)
(* the scheduler, while the validator on the same inputs reports the       *)
(* variable among the missing required ones.                                *)
C9_FallbackEmitsAll ==
    /\ (pc \in {"reorder", "done"} /\ fallbacks > 0) =>
           /\ remaining_deps = <<>>
           /\ IsPermutation(ordered_tools, tool_plan)
    /\ SchedulerCallDone =>
           \A v \in SharedUnprovided(tool_plan, DOMAIN extracted_vars) :
               /\ "returned" \in DOMAIN result
               /\ \A i \in 1..Len(tool_plan) :
                      v \in BareNames(tool_plan[i]) =>
                          Count(tool_plan[i], result.returned) = Count(tool_plan[i], tool_plan)
               /\ \A schema \in ValidSchemas :
                      ClassifiedRequiredOrAbsent(v, schema) =>
                          LET r == validate_dependencies(dependencies,
                                       DOMAIN extracted_vars, schema)
                          IN ~r.is_valid /\ v \in Range(r.missing_required)

C9_Witness ==
    /\ SchedulerCallDone
    /\ fallbacks > 0
    /\ rounds = 1
    /\ SharedUnprovided(tool_plan, DOMAIN extracted_vars) # {}
    /\ Len(result.returned) >= 2

AllUnmet(plan, pool_names) == UNION {UnmetAt(plan, i, pool_names) : i \in 1..Len(plan)}

(* C10: when some bare reference is unmet and every unmet bare reference   *)
(* is to a variable the schema classifies optional, the validator returns  *)
(* ok = true with those names among the missing optional ones, and the     *)
(* planning call succeeds.                                                  *)
C10_OptionalDoesNotBlock ==
    (/\ PlanCallDone
     /\ AllUnmet(tool_plan, DOMAIN extracted_vars) # {}
     /\ \A v \in AllUnmet(tool_plan, DOMAIN extracted_vars) :
            ClassifiedOptional(v, intent_variables)) =>
        /\ validator_returned.is_valid
        /\ AllUnmet(tool_plan, DOMAIN extracted_vars)
               \subseteq Range(validator_returned.missing_optional)
        /\ result.success

C10_Witness ==
    /\ PlanCallDone
    /\ result.success
    /\ missing_optional # <<>>
    /\ missing_required = <<>>
    /\ \A v \in AllUnmet(tool_plan, DOMAIN extracted_vars) :
           ClassifiedOptional(v, intent_variables)

(* C11: when the validator found a missing required variable the planning *)
(* call returns a failure value with an error message, the missing         *)
(* required names, the missing optional names and the pool's key set, no   *)
(* tool plan, and neither scheduler nor finalizer has run.                  *)
C11_MissingRequiredFails ==
    (call = "plan_tool_execution" /\ missing_required # <<>>) =>
        /\ pc \in {"validate", "done"}
        /\ rounds = 0 /\ ordered_tools = <<>> /\ remaining_deps = <<>>
        /\ pc = "done" =>
              /\ DOMAIN result = {"success", "error", "missing_variables",
                                  "missing_optional_variables", "available_variables"}
              /\ ~result.success
              /\ result.error # <<>>
              /\ Range(result.missing_variables) = Range(missing_required)
              /\ Range(result.missing_optional_variables) = Range(missing_optional)
              /\ Range(result.available_variables) = DOMAIN extracted_vars

C11_Witness ==
    /\ PlanCallDone
    /\ missing_required # <<>>
    /\ missing_optional # <<>>
    /\ DOMAIN extracted_vars # {}
    /\ ~result.success

(* C13: an intent without tool plan makes the planning call return a      *)
(* failure value with an error message for every pool; nothing is raised   *)
(* and neither the validator nor the scheduler runs.                        *)
C13_EmptyPlanFails ==
    (call = "plan_tool_execution" /\ tool_plan = <<>>) =>
        /\ pc \in {"start", "done"}
        /\ dependencies = <<>> /\ dep_i = 1 /\ v_current_vars = {}
        /\ rounds = 0 /\ ordered_tools = <<>>
        /\ pc = "done" =>
              /\ DOMAIN result = {"success", "error"}
              /\ ~result.success
              /\ result.error # <<>>

C13_Witness ==
    /\ PlanCallDone
    /\ tool_plan = <<>>
    /\ DOMAIN extracted_vars # {}
    /\ intent_variables # {}
    /\ ~result.success

(* C12 as claimed: a bare reference "$name" is finalized to pool[name]     *)
(* whenever name is a key of the pool, and has no entry otherwise.          *)
C12_BareReferenceBoundWhenInPool ==
    (PlanCallDone /\ result.success) =>
        \A k \in 1..Len(ordered_tools) :
            \A p \in DOMAIN ordered_tools[k].params :
                LET value == ordered_tools[k].params[p]
                    final == result.tool_plan[k].params
                IN IsBareRef(value) =>
                      IF Tail(value.val) \in DOMAIN extracted_vars
                      THEN p \in DOMAIN final /\ final[p] = extracted_vars[Tail(value.val)]
                      ELSE p \notin DOMAIN final

(* C12: a bare reference "$name" is finalized to pool[name] when name is   *)
(* in the pool with a non-null value, and has no entry at all when name is *)
(* not in the pool or is bound to null; no parameter is emitted as null.    *)
C12_BareReferenceResolved ==
    (PlanCallDone /\ result.success) =>
        \A k \in 1..Len(ordered_tools) :
            LET final == result.tool_plan[k].params
            IN /\ \A p \in DOMAIN final : final[p] # None
               /\ \A p \in DOMAIN ordered_tools[k].params :
                      LET value == ordered_tools[k].params[p]
                      IN IsBareRef(value) =>
                            IF /\ Tail(value.val) \in DOMAIN extracted_vars
                               /\ extracted_vars[Tail(value.val)] # None
                            THEN /\ p \in DOMAIN final
                                 /\ final[p] = extracted_vars[Tail(value.val)]
                            ELSE p \notin DOMAIN final

C12_Witness ==
    /\ PlanCallDone
    /\ result.success
    /\ \E k \in 1..Len(ordered_tools) :
           LET raw == ordered_tools[k].params
               final == result.tool_plan[k].params
           IN /\ \E p \in DOMAIN raw :
                     /\ IsBareRef(raw[p])
                     /\ Tail(raw[p].val) \notin DOMAIN extracted_vars
                     /\ p \notin DOMAIN final
              /\ \E p \in DOMAIN raw :
                     /\ IsBareRef(raw[p])
                     /\ Tail(raw[p].val) \in DOMAIN extracted_vars
                     /\ p \in DOMAIN final

(* C14: no error escapes the planning call: it ends with a success value   *)
(* or with a failure value carrying a message, and what the validator      *)
(* raises on a schema of the wrong shape comes back as a failure value.     *)
C14_NoErrorEscapes ==
    call = "plan_tool_execution" =>
        /\ DOMAIN result # {"raised"}
        /\ pc = "done" =>
              /\ "success" \in DOMAIN result
              /\ result.success =>
                    DOMAIN result = {"success", "tool_plan", "execution_order",
                                     "dependency_analysis"}
              /\ ~result.success =>
                    /\ "error" \in DOMAIN result
                    /\ result.error # <<>>
                    /\ "tool_plan" \notin DOMAIN result
        /\ (pc = "done" /\ tool_plan # <<>> /\ intent_variables \notin ValidSchemas) =>
              /\ "success" \in DOMAIN result
              /\ ~result.success
              /\ result.error = <<"Dependency planning failed: ", "AttributeError">>

C14_Witness ==
    /\ PlanCallDone
    /\ tool_plan # <<>>
    /\ InvalidSchemaEntry \in intent_variables
    /\ ~result.success
    /\ rounds = 0

IsMalformedRef(value) ==
    /\ isinstance_str(value)
    /\ contains_barbar(value.val)
    /\ Len(split_barbar(value.val)) > 2

(* C15: a parameter value with more than one "||" is treated as a literal: *)
(* the finalized parameter is the raw string, not dropped.                  *)
C15_MalformedIsLiteral ==
    (PlanCallDone /\ result.success) =>
        \A k \in 1..Len(ordered_tools) :
            \A p \in DOMAIN ordered_tools[k].params :
                IsMalformedRef(ordered_tools[k].params[p]) =>
                    /\ p \in DOMAIN result.tool_plan[k].params
                    /\ result.tool_plan[k].params[p] = ordered_tools[k].params[p]

RoundSteps(pairs) == [i \in 1..Len(pairs) |-> pairs[i][2].original_step]

(* C18: a scheduling round appends the steps it selected in ascending      *)
(* original-index order.                                                    *)
C18_RoundAppendsAscending ==
    [][rounds' = rounds + 1 =>
          ordered_tools' =
              ordered_tools \o
              RoundSteps(sort_by_step_index(executable_now_of(remaining_deps, current_vars)))]_vars

ProvidedBy(steps) ==
    UNION {_get_provided_variables(steps[j].post_process) : j \in 1..Len(steps)}

(* C19: every step emitted in a round in which some step was ready has     *)
(* each of its bare-referenced variables in the initial pool or among the  *)
(* provided variables of the steps emitted in earlier rounds.               *)
C19_ReadyRoundsConsistent ==
    [][(/\ rounds' = rounds + 1
        /\ enumerate_ready(remaining_deps, 1, current_vars) # <<>>) =>
          /\ Len(ordered_tools') > Len(ordered_tools)
          /\ \A k \in (Len(ordered_tools) + 1)..Len(ordered_tools') :
                 BareNames(ordered_tools'[k]) \subseteq
                     (DOMAIN extracted_vars \cup ProvidedBy(ordered_tools))]_vars

C19_Witness ==
    /\ SchedulerCallDone
    /\ rounds = 2
    /\ fallbacks = 0
    /\ "returned" \in DOMAIN result
    /\ result.returned # tool_plan
    /\ BareNames(result.returned[2]) \cap ProvidedBy(<<result.returned[1]>>) # {}
    /\ BareNames(result.returned[2]) \cap ProvidedBy(<<result.returned[1]>>)
           \cap DOMAIN extracted_vars = {}

(* unmet bare references whose producer is declared after the consumer *)
LateProducedNames(plan, pool_names) ==
    {v \in AllUnmet(plan, pool_names) :
        \E i \in 1..Len(plan) :
            /\ v \in UnmetAt(plan, i, pool_names)
            /\ \E j \in (i + 1)..Len(plan) :
                   v \in _get_provided_variables(plan[j].post_process)}

(* C20 as claimed: a variable whose only producer is declared later than   *)
(* its consumer is reported missing and the planning call fails.            *)
C20_LateProducerFails ==
    (PlanCallDone /\ intent_variables \in ValidSchemas) =>
        \A v \in LateProducedNames(tool_plan, DOMAIN extracted_vars) :
            /\ v \in Range(missing_required) \cup Range(missing_optional)
            /\ ~result.success

(* C20: validation is a forward pass over the declared order: the names    *)
(* the validator reports are exactly the bare references unmet by the pool *)
(* and the steps declared earlier; a variable whose producer is declared   *)
(* later than its consumer is reported missing, and the call fails when    *)
(* the schema classifies it required or does not declare it; when the      *)
(* schema classifies it optional it is reported among the missing optional *)
(* variables and does not fail the call.                                    *)
C20_ValidationIsForwardPass ==
    (PlanCallDone /\ intent_variables \in ValidSchemas /\ tool_plan # <<>>) =>
        /\ Range(missing_required) \cup Range(missing_optional)
               = AllUnmet(tool_plan, DOMAIN extracted_vars)
        /\ \A v \in LateProducedNames(tool_plan, DOMAIN extracted_vars) :
               IF ClassifiedOptional(v, intent_variables)
               THEN v \in Range(missing_optional) \ Range(missing_required)
               ELSE /\ v \in Range(missing_required)
                    /\ ~result.success
                    /\ v \in Range(result.missing_variables)
        /\ result.success <=>
               \A v \in AllUnmet(tool_plan, DOMAIN extracted_vars) :
                   ClassifiedOptional(v, intent_variables)

C20_Witness ==
    /\ PlanCallDone
    /\ intent_variables \in ValidSchemas
    /\ ~result.success
    /\ LateProducedNames(tool_plan, DOMAIN extracted_vars) # {}
    /\ AllUnmet(tool_plan, DOMAIN extracted_vars)
           = LateProducedNames(tool_plan, DOMAIN extracted_vars)
    /\ Range(result.missing_variables) = AllUnmet(tool_plan, DOMAIN extracted_vars)

(* what the claim compares of two results *)
missing_sets(r) ==
    IF "missing_variables" \in DOMAIN r
    THEN <<Range(r.missing_variables), Range(r.missing_optional_variables)>>
    ELSE <<{}, {}>>

SameOutcome(r1, r2) ==
    /\ r1.success = r2.success
    /\ r1.success => /\ r1.execution_order = r2.execution_order
                     /\ r1.tool_plan = r2.tool_plan
    /\ missing_sets(r1) = missing_sets(r2)

(* C16: two runs of the planning call on the same raw plan, pool and       *)
(* schema reach the same outcome, the same step order, the same finalized  *)
(* parameters and the same sets of missing variables.                       *)
C16_SameInputsSameOutcome ==
    (pc = "done" /\ other.pc = "done" /\ other.extracted_vars = extracted_vars) =>
        SameOutcome(result, other.result)

C16_Witness ==
    /\ pc = "done"
    /\ other.pc = "done"
    /\ other.extracted_vars = extracted_vars
    /\ result.success
    /\ other.result.success
    /\ rounds = 2
    /\ result.execution_order = other.result.execution_order

(* C17: two planning calls interleaved at any step do not affect each      *)
(* other: a step of one call leaves the other call's descriptors, working  *)
(* sets and result as they were, the shared plan and schema are only read, *)
(* and each call returns what plan_tool_execution returns on its own        *)
(* inputs.                                                                  *)
C17_CallsDoNotInterfere ==
    /\ [](/\ pc = "done" =>
                result = plan_tool_execution(tool_plan, intent_variables, extracted_vars)
          /\ other.pc = "done" =>
                other.result = plan_tool_execution(tool_plan, intent_variables,
                                                   other.extracted_vars))
    /\ [][/\ tool_plan' = tool_plan
          /\ intent_variables' = intent_variables
          /\ other' # other =>
                UNCHANGED <<extracted_vars, pc, dependencies, validator_vars,
                            scheduler_vars, result>>
          /\ other' = other \/ other' = call_step(other, tool_plan, intent_variables)]_vars

C17_Witness ==
    /\ pc = "reorder"
    /\ rounds = 1
    /\ remaining_deps # <<>>
    /\ other.pc = "reorder"
    /\ other.scheduled.ordered_tools # <<>>
    /\ other.scheduled.remaining_deps # <<>>
    /\ other.extracted_vars # extracted_vars

(* C21: the validator adds a step's provided variables to its current set *)
(* whether or not the step's own references were satisfied: what it        *)
(* reports for a step is never a name provided by an earlier step, even    *)
(* when that earlier step had a missing required variable.                  *)
C21_OptimisticPropagation ==
    [][(pc = "validate" /\ dep_i' = dep_i + 1) =>
          /\ v_current_vars' = v_current_vars \cup dependencies[dep_i].provided_vars
          /\ v_current_vars = DOMAIN extracted_vars \cup ProvidedBefore(tool_plan, dep_i)
          /\ \A k \in (Len(missing_required) + 1)..Len(missing_required') :
                 missing_required'[k] \notin ProvidedBefore(tool_plan, dep_i)
          /\ \A k \in (Len(missing_optional) + 1)..Len(missing_optional') :
                 missing_optional'[k] \notin ProvidedBefore(tool_plan, dep_i)]_vars

C21_Witness ==
    /\ PlanCallDone
    /\ intent_variables \in ValidSchemas
    /\ Len(tool_plan) = 2
    /\ UnmetAt(tool_plan, 1, DOMAIN extracted_vars) # {}
    /\ Range(missing_required) = UnmetAt(tool_plan, 1, DOMAIN extracted_vars)
    /\ BareNames(tool_plan[2]) \cap ProvidedBefore(tool_plan, 2) # {}
    /\ BareNames(tool_plan[2]) \cap ProvidedBefore(tool_plan, 2) \cap DOMAIN extracted_vars = {}
    /\ ~result.success

NoDuplicates(list) == Cardinality(Range(list)) = Len(list)

(* C22: the validator's verdict is true exactly when the returned list of  *)
(* missing required names is empty, and each returned list holds every     *)
(* name at most once, also when several steps miss the same variable.       *)
C22_VerdictAndDeduplication ==
    (call = "plan_tool_execution" /\ pc \in {"validate", "reorder", "done"}
        /\ intent_variables \in ValidSchemas) =>
        /\ validator_returned.is_valid <=> validator_returned.missing_required = <<>>
        /\ NoDuplicates(validator_returned.missing_required)
        /\ NoDuplicates(validator_returned.missing_optional)
        /\ Range(validator_returned.missing_required) = Range(missing_required)
        /\ Range(validator_returned.missing_optional) = Range(missing_optional)
        /\ (pc = "done" /\ tool_plan # <<>>) =>
              /\ result.success <=> validator_returned.is_valid
              /\ ~result.success =>
                    /\ NoDuplicates(result.missing_variables)
                    /\ NoDuplicates(result.missing_optional_variables)

C22_Witness ==
    /\ PlanCallDone
    /\ intent_variables \in ValidSchemas
    /\ ~NoDuplicates(missing_required)
    /\ ~NoDuplicates(missing_optional)
    /\ ~result.success
    /\ NoDuplicates(result.missing_variables)

(* C23: the working set of available names only grows: no step of the     *)
(* validator or of the scheduler removes a name, and at every point the    *)
(* set is the pool's keys plus the provided variables of the steps         *)
(* processed so far.                                                        *)
C23_WorkingSetOnlyGrows ==
    /\ [](/\ pc = "validate" =>
                v_current_vars = DOMAIN extracted_vars
                                     \cup ProvidedBefore(tool_plan, dep_i)
          /\ pc = "reorder" =>
                current_vars = DOMAIN extracted_vars \cup ProvidedBy(ordered_tools))
    /\ [][/\ v_current_vars \subseteq v_current_vars'
          /\ current_vars \subseteq current_vars'
          /\ extracted_vars' = extracted_vars]_vars

C23_Witness ==
    /\ pc = "reorder"
    /\ rounds >= 1
    /\ remaining_deps # <<>>
    /\ DOMAIN extracted_vars # {}
    /\ ProvidedBy(ordered_tools) # {}
    /\ ProvidedBy(ordered_tools) \cap DOMAIN extracted_vars = {}
    /\ DOMAIN extracted_vars \cup ProvidedBy(ordered_tools) \subseteq current_vars

(* C24: on success, reordered is true exactly when the tool names of the   *)
(* scheduled order differ from those of the original plan; the two plans   *)
(* have the same length.                                                    *)
C24_ReorderedIffNamesDiffer ==
    (PlanCallDone /\ result.success) =>
        /\ Len(ordered_tools) = Len(tool_plan)
        /\ Len(result.tool_plan) = Len(tool_plan)
        /\ result.dependency_analysis.reordered
               <=> tool_names(ordered_tools) # tool_names(tool_plan)

C24_Witness ==
    /\ PlanCallDone
    /\ result.success
    /\ result.dependency_analysis.reordered
    /\ Len(tool_plan) >= 2
    /\ result.execution_order # tool_names(tool_plan)

(* C25: the finalizer changes parameter values only: the k-th finalized    *)
(* step has the tool name, post_process and note of the k-th scheduled     *)
(* step, its parameter keys are among that step's raw keys, none of its    *)
(* parameters is null, and the raw plan is left as it was.                  *)
C25_FinalizerFrame ==
    /\ []((PlanCallDone /\ result.success) =>
            /\ Len(result.tool_plan) = Len(ordered_tools)
            /\ \A k \in 1..Len(ordered_tools) :
                   /\ result.tool_plan[k].tool = ordered_tools[k].tool
                   /\ result.tool_plan[k].post_process = ordered_tools[k].post_process
                   /\ result.tool_plan[k].note = ordered_tools[k].note
                   /\ DOMAIN result.tool_plan[k].params
                          \subseteq DOMAIN ordered_tools[k].params
                   /\ \A p \in DOMAIN result.tool_plan[k].params :
                          result.tool_plan[k].params[p] # None
            /\ IsPermutation(ordered_tools, tool_plan))
    /\ [][tool_plan' = tool_plan]_vars

C25_Witness ==
    /\ PlanCallDone
    /\ result.success
    /\ \E k \in 1..Len(ordered_tools) :
           /\ ordered_tools[k].post_process # NoneStr
           /\ result.tool_plan[k].post_process = ordered_tools[k].post_process
           /\ DOMAIN result.tool_plan[k].params # DOMAIN ordered_tools[k].params
    /\ \E k \in 1..Len(ordered_tools) :
           \E p \in DOMAIN result.tool_plan[k].params :
               result.tool_plan[k].params[p] # ordered_tools[k].params[p]

RegistryEntry(post_process) ==
    IF post_process \in DOMAIN post_processor_outputs
    THEN post_processor_outputs[post_process]
    ELSE {}

RegistryOutputs(steps) ==
    UNION {RegistryEntry(steps[j].post_process) : j \in 1..Len(steps)}

C28_ValidPlanNeedsNoFallback ==
    (/\ call = "plan_tool_execution"
     /\ pc = "reorder" \/ (pc = "done" /\ result.success)
     /\ missing_optional = <<>>) =>
        /\ validator_returned.is_valid
        /\ fallbacks = 0
        /\ remaining_deps # <<>> =>
               enumerate_ready(remaining_deps, 1, current_vars) # <<>>
        /\ \A k \in 1..Len(ordered_tools) :
               BareNames(ordered_tools[k]) \subseteq
                   (DOMAIN extracted_vars
                        \cup ProvidedBy(SubSeq(ordered_tools, 1, k - 1)))

C28_Witness ==
    /\ PlanCallDone
    /\ result.success
    /\ missing_optional = <<>>
    /\ rounds = 2
    /\ fallbacks = 0
    /\ BareNames(ordered_tools[2]) \cap ProvidedBy(<<ordered_tools[1]>>) # {}
    /\ DefaultNames(ordered_tools[1]) \cup DefaultNames(ordered_tools[2]) = {}

NullKeys(pool) == {n \in DOMAIN pool : pool[n] = None}

(* C29: a variable whose key is in the pool with a null value is never     *)
(* reported missing by the validator, counts as available for the          *)
(* scheduler's readiness test, and every bare-reference parameter naming   *)
(* it is dropped from the finalized step.                                   *)
C29_NullValueAvailableButDropped ==
    (call = "plan_tool_execution" /\ intent_variables \in ValidSchemas) =>
        /\ NullKeys(extracted_vars)
               \cap (Range(missing_required) \cup Range(missing_optional)) = {}
        /\ pc = "validate" => NullKeys(extracted_vars) \subseteq v_current_vars
        /\ pc = "reorder" =>
              /\ NullKeys(extracted_vars) \subseteq current_vars
              /\ \A i \in 1..Len(remaining_deps) :
                     BareNames(remaining_deps[i].original_step)
                             \subseteq NullKeys(extracted_vars) =>
                         \E j \in 1..Len(enumerate_ready(remaining_deps, 1, current_vars)) :
                             enumerate_ready(remaining_deps, 1, current_vars)[j][1] = i
        /\ (pc = "done" /\ tool_plan # <<>> /\ result.success) =>
              \A k \in 1..Len(ordered_tools) :
                  \A p \in DOMAIN ordered_tools[k].params :
                      (/\ IsBareRef(ordered_tools[k].params[p])
                       /\ Tail(ordered_tools[k].params[p].val)
                              \in NullKeys(extracted_vars)) =>
                          p \notin DOMAIN result.tool_plan[k].params
        /\ (pc = "done" /\ tool_plan # <<>> /\ ~result.success) =>
              NullKeys(extracted_vars) \cap Range(result.missing_variables) = {}

C29_Witness ==
    /\ PlanCallDone
    /\ result.success
    /\ [name |-> <<"issue_key">>, required |-> TRUE] \in intent_variables
    /\ intent_variables \in ValidSchemas
    /\ <<"issue_key">> \in NullKeys(extracted_vars)
    /\ \E k \in 1..Len(ordered_tools) :
           \E p \in DOMAIN ordered_tools[k].params :
               /\ ordered_tools[k].params[p] = PyStr(<<"$", "issue_key">>)
               /\ p \notin DOMAIN result.tool_plan[k].params

SmartFallbackDone == pc = "done" /\ call = "create_smart_fallback_plan"

(* what is available when the pass reaches step i: the partial pool and    *)
(* the outputs of the earlier steps that were not blocked                   *)
RECURSIVE AvailableAt(_, _, _)
AvailableAt(plan, i, pool_names) ==
    IF i = 1 THEN pool_names
    ELSE LET before == AvailableAt(plan, i - 1, pool_names)
         IN IF ToolDependency(plan[i - 1], 0).required_vars \subseteq before
            THEN before \cup _get_provided_variables(plan[i - 1].post_process)
            ELSE before

BlockedAt(plan, i, pool_names) ==
    ~(ToolDependency(plan[i], 0).required_vars \subseteq AvailableAt(plan, i, pool_names))

(* the positions of the plan that are blocked, or that are not, in plan order *)
RECURSIVE PositionsFrom(_, _, _, _)
PositionsFrom(plan, i, pool_names, blocked) ==
    IF i > Len(plan) THEN <<>>
    ELSE (IF BlockedAt(plan, i, pool_names) = blocked THEN <<i>> ELSE <<>>)
         \o PositionsFrom(plan, i + 1, pool_names, blocked)

(* C30: create_smart_fallback_plan puts every step, in plan order, into    *)
(* exactly one of executable_tools and blocked_tools; a step is blocked    *)
(* exactly when some name of its required_vars is neither in the partial   *)
(* pool nor provided by an earlier executable step; every blocked entry    *)
(* lists those names, at least one; a blocked step's outputs are not       *)
(* available to later steps.                                                *)
C30_SmartFallbackPartition ==
    SmartFallbackDone =>
        LET free == PositionsFrom(tool_plan, 1, DOMAIN extracted_vars, FALSE)
            held == PositionsFrom(tool_plan, 1, DOMAIN extracted_vars, TRUE)
        IN /\ Len(result.executable_tools) + Len(result.blocked_tools) = Len(tool_plan)
           /\ result.executable_tools = [k \in 1..Len(free) |-> tool_plan[free[k]]]
           /\ Len(result.blocked_tools) = Len(held)
           /\ \A k \in 1..Len(held) :
                  /\ result.blocked_tools[k].tool = tool_plan[held[k]].tool
                  /\ result.blocked_tools[k].missing # <<>>
                  /\ Range(result.blocked_tools[k].missing) =
                         ToolDependency(tool_plan[held[k]], 0).required_vars
                             \ AvailableAt(tool_plan, held[k], DOMAIN extracted_vars)
           /\ result.partial_execution_possible <=> free # <<>>

C30_Witness ==
    /\ SmartFallbackDone
    /\ Len(tool_plan) = 2
    /\ Len(result.blocked_tools) = 2
    /\ _get_provided_variables(tool_plan[1].post_process) # {}
    /\ _get_provided_variables(tool_plan[1].post_process)
           \subseteq Range(result.blocked_tools[2].missing)

(* C27: when a planning call fails with missing variables M for pool P,    *)
(* the call repeated on the same plan and schema with a pool holding P's   *)
(* keys and every name of M succeeds; and a call on an enlarged pool       *)
(* reports no missing variable that the first call did not report.          *)
C27_RetryConverges ==
    (pc = "done" /\ call = "plan_tool_execution" /\ other # NoCall
        /\ DOMAIN other.extracted_vars \subseteq DOMAIN extracted_vars) =>
        /\ Range(other.result.missing_variables) \subseteq DOMAIN extracted_vars
               => result.success
        /\ ~result.success =>
               /\ "missing_variables" \in DOMAIN result
               /\ Range(result.missing_variables)
                      \subseteq Range(other.result.missing_variables)
               /\ Range(result.missing_variables) \cap DOMAIN extracted_vars = {}

C27_Witness ==
    /\ pc = "done"
    /\ call = "plan_tool_execution"
    /\ other # NoCall
    /\ ~other.result.success
    /\ Cardinality(Range(other.result.missing_variables)) >= 2
    /\ DOMAIN extracted_vars =
           DOMAIN other.extracted_vars \cup Range(other.result.missing_variables)
    /\ result.success
    /\ Len(tool_plan) >= 2

====
